---- MODULE Spec2Model ----
(***************************************************************************)
(* Model of the CASM emitted for the Sierra elliptic-curve libfuncs        *)
(* (crates/cairo-lang-sierra-to-casm/src/invocations/ec.rs).               *)
(*                                                                         *)
(* Each libfunc is modelled by the execution of the instructions its       *)
(* builder emits: the inputs are field elements, a hint is any field       *)
(* element, an `assert` that does not hold or a `fail` leaves no           *)
(* satisfiable trace (branch "Unsatisfiable"), and the outcome names the   *)
(* branch taken with the values that branch carries.                       *)
(*                                                                         *)
(* The field of the program is the 252-bit STARK prime field and the curve *)
(* is y^2 = x^3 + x + BETA over it.  TLC cannot enumerate that field, so   *)
(* the model runs the same instruction sequences over small prime fields   *)
(* (Curves) that keep the facts the source relies on: 3 is a quadratic     *)
(* non-residue (ec.rs:193), the curve has odd order and so no point with   *)
(* y = 0 (ec.rs:191, ec.rs:258), and BETA # 0.                             *)
(***************************************************************************)
EXTENDS Integers, Naturals, Sequences, FiniteSets, TLC

\* ------------------------------------------------------------------ bounds
\* How many of the curves of Curves the model runs over.
NumCurves == 2
\* Largest range-check / EC-builtin cursor an invocation is handed.
MaxCursor == 1
\* Largest scalar handed to StateAddMul.
MaxScalar == 2
\* Most StateAdd / StateAddMul operations between StateInit and StateFinalize.
MaxOps == 2

\* ------------------------------------------------------- field and curve
\* Scaled-down instances of (Felt252 prime, get_beta()): p prime, 3 a
\* non-residue mod p, y^2 = x^3 + x + beta of odd order over F_p.
Curves ==
  << [p |-> 7, beta |-> 6], [p |-> 5, beta |-> 1], [p |-> 7, beta |-> 1] >>

VARIABLES
  curve,    \* index into Curves: the field and curve of this run
  R,        \* the random EC point stored after the program code
  out,      \* outcome of the last libfunc invocation
  prevX,    \* the previous Fallthrough outcome of PointFromX, if any
  state,    \* the live EcState (x, y, random_ptr), or NoState
  sum,      \* ghost: group sum of everything added to the state since StateInit
  nops,     \* ghost: number of StateAdd / StateAddMul since StateInit
  mulUsed   \* ghost: StateAddMul was among them

vars == << curve, R, out, prevX, state, sum, nops, mulUsed >>

\* The field prime (Felt252::prime()).
PRIME == Curves[curve].p

\* get_beta(): the Beta value of the curve.
get_beta == Curves[curve].beta

Felt == 0 .. (PRIME - 1)

\* Field arithmetic of the CASM machine: every cell holds the canonical
\* representative in [0, PRIME).
FAdd(a, b) == (a + b) % PRIME
FSub(a, b) == (a - b + PRIME) % PRIME
FMul(a, b) == (a * b) % PRIME
\* `a / b`: the cell s with s * b = a.  Only evaluated with b # 0.
FDiv(a, b) == CHOOSE s \in Felt : FMul(s, b) = a

\* An immediate of the instruction stream, reduced into the field.
Imm(n) == ((n % PRIME) + PRIME) % PRIME

ZeroPoint == [x |-> 0, y |-> 0]
Pt(a, b) == [x |-> a, y |-> b]
FeltPairs == { Pt(a, b) : a \in Felt, b \in Felt }

\* ------------------------------------------------- curve-equation evaluator
\* compute_lhs: y^2.
compute_lhs(y) == FMul(y, y)

compute_rhs_NoAlpha(x) ==
  LET beta == Imm(get_beta)
      x2 == FMul(x, x)
      x3 == FMul(x2, x)
  IN  FAdd(x3, beta)

\* compute_rhs: x^3 + x + BETA (Alpha is 1).
compute_rhs(x) ==
  LET beta == Imm(get_beta)
      x2 == FMul(x, x)
      x3 == FMul(x2, x)
      alpha_x_plus_beta == FAdd(x, beta)
  IN  FAdd(x3, alpha_x_plus_beta)

\* compute_ec_equation: the pair (computed_lhs, computed_rhs).
compute_ec_equation(x, y) == [lhs |-> compute_lhs(y), rhs |-> compute_rhs(x)]

\* --------------------------------------------- reference curve arithmetic
\* The curve equation over the integers, reduced once: the mathematical
\* statement the emitted code is compared against.
OnCurve(p) == (p.y * p.y) % PRIME = (p.x * p.x * p.x + p.x + get_beta) % PRIME
CurvePoints == { p \in FeltPairs : OnCurve(p) }
\* Values of type EcPoint: the zero point or a point of the curve.
EcPoints == CurvePoints \cup {ZeroPoint}

IsSquare(a) == \E r \in Felt : (r * r) % PRIME = a
\* r < PRIME / 2 over the integers.
BelowHalf(r) == 2 * r < PRIME

\* The group law of the curve, with ZeroPoint standing for the identity.
RefInv(a) == CHOOSE s \in Felt : (s * a) % PRIME = 1
RefNeg(p) == Pt(p.x, (PRIME - p.y) % PRIME)
RefChord(A, B, lam) ==
  LET x3 == (lam * lam + 2 * PRIME - A.x - B.x) % PRIME
      y3 == (lam * (A.x + PRIME - x3) + PRIME - A.y) % PRIME
  IN  Pt(x3, y3)
GroupAdd(A, B) ==
  IF A = ZeroPoint THEN B
  ELSE IF B = ZeroPoint THEN A
  ELSE IF A = RefNeg(B) THEN ZeroPoint
  ELSE IF A = B
    THEN RefChord(A, B, ((3 * A.x * A.x + 1) * RefInv((2 * A.y) % PRIME)) % PRIME)
    ELSE RefChord(A, B,
           ((B.y + PRIME - A.y) * RefInv((B.x + PRIME - A.x) % PRIME)) % PRIME)
RECURSIVE ScalarMul(_, _)
ScalarMul(m, p) == IF m = 0 THEN ZeroPoint ELSE GroupAdd(ScalarMul(m - 1, p), p)

\* ------------------------------------------------------ program memory
\* get_pointer_after_program_code(2): the instructions leave in [ap - 1] the
\* address of the two cells after the program code, which hold the global
\* random EC point.  A program address, never the felt 0.
get_pointer_after_program_code == 4

\* The two cells after the program code.
Mem(addr) ==
  IF addr = get_pointer_after_program_code THEN R.x
  ELSE IF addr = get_pointer_after_program_code + 1 THEN R.y
  ELSE 0

\* validate_under_limit::<1>(limit, value, range_check): asserts
\* 0 <= value < limit and consumes one range-check slot.
validate_under_limit(limit, value, range_check) ==
  [ok |-> value < limit, range_check |-> range_check + 1]

\* ------------------------------------------------- point-addition formula
add_ec_points_inner_SumX(p0, x1, numerator, denominator) ==
  LET x0 == p0.x
      y0 == p0.y
      slope == FDiv(numerator, denominator)
      slope2 == FMul(slope, slope)
      sum_x == FAdd(x0, x0)
      result_x == FSub(slope2, sum_x)
      x_diff == FSub(x0, result_x)
      slope_times_x_change == FMul(slope, x_diff)
      result_y == FSub(slope_times_x_change, y0)
  IN  Pt(result_x, result_y)

\* add_ec_points_inner: the chord through p0 and the second point.
add_ec_points_inner(p0, x1, numerator, denominator) ==
  LET x0 == p0.x
      y0 == p0.y
      slope == FDiv(numerator, denominator)
      slope2 == FMul(slope, slope)
      sum_x == FAdd(x0, x1)
      result_x == FSub(slope2, sum_x)
      x_diff == FSub(x0, result_x)
      slope_times_x_change == FMul(slope, x_diff)
      result_y == FSub(slope_times_x_change, y0)
  IN  Pt(result_x, result_y)

Unsatisfiable(at) == [branch |-> "Unsatisfiable", at |-> at]

\* ------------------------------------------------- per-libfunc builders
\* build_ec_zero
build_ec_zero ==
  LET zero == Imm(0) IN [branch |-> "Fallthrough", point |-> Pt(zero, zero)]

\* build_ec_point_try_new_nz
build_ec_point_try_new_nz(x, y) ==
  LET eq == compute_ec_equation(x, y)
      y2 == eq.lhs
      expected_y2 == eq.rhs
      diff == FSub(y2, expected_y2)
  IN  IF diff # 0
        THEN [branch |-> "NotOnCurve"]
        ELSE [branch |-> "Fallthrough", point |-> Pt(x, y)]

three_AsTwo == 1 + 1

\* const three = (3);
three == 3

\* build_ec_point_from_x_nz up to the label OnCurve: the label reached with
\* the hinted y.
from_x_verify(x, y) ==
  LET rhs == compute_rhs(x)
      lhs == compute_lhs(y)
      diff == FSub(lhs, rhs)
  IN  IF diff # 0
        THEN \* VerifyNotOnCurve:
             IF lhs = FMul(rhs, Imm(three))
               THEN "NotOnCurve"
               ELSE "AssertFailed"
        ELSE "OnCurve"

from_x_limit_Whole == PRIME

\* The limit handed to validate_under_limit: 1/2 (mod PRIME).
from_x_limit == FDiv(Imm(1), Imm(2))

build_ec_point_from_x_nz_AdvanceFirst(range_check, x, y) ==
  LET checked == validate_under_limit(from_x_limit, y, range_check)
      at == from_x_verify(x, y)
  IN  IF at = "AssertFailed" THEN Unsatisfiable("assert lhs = rhs * three")
      ELSE IF at = "NotOnCurve"
        THEN [branch |-> "NotOnCurve", range_check |-> checked.range_check]
      ELSE IF ~checked.ok THEN Unsatisfiable("validate_under_limit")
      ELSE [branch |-> "Fallthrough", range_check |-> checked.range_check,
            point |-> Pt(x, y)]

\* build_ec_point_from_x_nz, with y the value the FieldSqrt hint wrote.
build_ec_point_from_x_nz(range_check, x, y) ==
  LET at == from_x_verify(x, y)
  IN  IF at = "AssertFailed" THEN Unsatisfiable("assert lhs = rhs * three")
      ELSE IF at = "NotOnCurve"
        THEN [branch |-> "NotOnCurve", range_check |-> range_check]
      ELSE \* OnCurve:
        LET checked == validate_under_limit(from_x_limit, y, range_check)
        IN  IF ~checked.ok THEN Unsatisfiable("validate_under_limit")
            ELSE [branch |-> "Fallthrough", range_check |-> checked.range_check,
                  point |-> Pt(x, y)]

\* build_ec_point_unwrap
build_ec_point_unwrap(p) == [branch |-> "Fallthrough", x |-> p.x, y |-> p.y]

build_is_zero_OnX(p) ==
  IF p.x # 0 THEN [branch |-> "Target", point |-> Pt(p.x, p.y)]
  ELSE [branch |-> "Fallthrough"]

\* build_is_zero
build_is_zero(p) ==
  IF p.y # 0 THEN [branch |-> "Target", point |-> Pt(p.x, p.y)]
  ELSE [branch |-> "Fallthrough"]

build_ec_neg_NoSign(p) ==
  LET neg_one == Imm(1)
      neg_y == FMul(p.y, neg_one)
  IN  [branch |-> "Fallthrough", point |-> Pt(p.x, neg_y)]

\* build_ec_neg
build_ec_neg(p) ==
  LET neg_one == Imm(-1)
      neg_y == FMul(p.y, neg_one)
  IN  [branch |-> "Fallthrough", point |-> Pt(p.x, neg_y)]

\* ------------------------------------------------------ accumulator state
NoState == [x |-> 0, y |-> 0, random_ptr |-> -1]
NoPoint == [x |-> -1, y |-> -1]

\* build_ec_state_init: the cells of the new state are [[ap - 1] + 0],
\* [[ap - 1] + 1] and the immediate 0.
build_ec_state_init ==
  LET ptr == get_pointer_after_program_code
  IN  [branch |-> "Fallthrough",
       state |-> [x |-> Mem(ptr + 0), y |-> Mem(ptr + 1), random_ptr |-> Imm(0)]]

build_ec_state_add_WrongCell(st, pt) ==
  LET px == pt.x
      py == pt.y
      sx == st.x
      sy == st.y
      random_ptr == st.random_ptr
      denominator == FSub(px, sy)
  IN  IF denominator # 0
        THEN LET numerator == FSub(py, sy)
                 result == add_ec_points_inner(Pt(px, py), sx, numerator, denominator)
             IN  [branch |-> "Fallthrough", divided |-> TRUE,
                  state |-> [x |-> result.x, y |-> result.y,
                             random_ptr |-> random_ptr]]
        ELSE [branch |-> "Unsatisfiable", at |-> "fail", divided |-> FALSE]

\* build_ec_state_add
build_ec_state_add(st, pt) ==
  LET px == pt.x
      py == pt.y
      sx == st.x
      sy == st.y
      random_ptr == st.random_ptr
      denominator == FSub(px, sx)
  IN  IF denominator # 0
        THEN \* NotSameX:
             LET numerator == FSub(py, sy)
                 result == add_ec_points_inner(Pt(px, py), sx, numerator, denominator)
             IN  [branch |-> "Fallthrough", divided |-> TRUE,
                  state |-> [x |-> result.x, y |-> result.y,
                             random_ptr |-> random_ptr]]
        ELSE [branch |-> "Unsatisfiable", at |-> "fail", divided |-> FALSE]

build_ec_state_finalize_WrongOffset(st) ==
  LET x == st.x
      y == st.y
      random_ptr == get_pointer_after_program_code
      random_x == Mem(random_ptr + 0)
      random_y == Mem(random_ptr + 0)
      denominator == FSub(x, random_x)
  IN  IF denominator # 0
        THEN LET numerator == FAdd(y, random_y)
                 result == add_ec_points_inner(Pt(x, y), random_x, numerator, denominator)
             IN  [branch |-> "Fallthrough", point |-> result]
        ELSE IF y = random_y
          THEN [branch |-> "SumIsInfinity"]
          ELSE Unsatisfiable("assert y = random_y")

build_ec_state_finalize_Adds(st) ==
  LET x == st.x
      y == st.y
      random_ptr == get_pointer_after_program_code
      random_x == Mem(random_ptr + 0)
      random_y == Mem(random_ptr + 1)
      denominator == FSub(x, random_x)
  IN  IF denominator # 0
        THEN LET numerator == FSub(y, random_y)
                 result == add_ec_points_inner(Pt(x, y), random_x, numerator, denominator)
             IN  [branch |-> "Fallthrough", point |-> result]
        ELSE IF y = random_y
          THEN [branch |-> "SumIsInfinity"]
          ELSE Unsatisfiable("assert y = random_y")

\* build_ec_state_finalize: the pointer to the random point is computed
\* again by get_pointer_after_program_code; the state's third cell is unused.
build_ec_state_finalize(st) ==
  LET x == st.x
      y == st.y
      random_ptr == get_pointer_after_program_code
      random_x == Mem(random_ptr + 0)
      random_y == Mem(random_ptr + 1)
      denominator == FSub(x, random_x)
  IN  IF denominator # 0
        THEN \* NotSameX:
             LET numerator == FAdd(y, random_y)
                 result == add_ec_points_inner(Pt(x, y), random_x, numerator, denominator)
             IN  [branch |-> "Fallthrough", point |-> result]
        ELSE IF y = random_y
          THEN [branch |-> "SumIsInfinity"]
          ELSE Unsatisfiable("assert y = random_y")

\* The EC-op builtin: the two cells after the five inputs hold
\* state + m * point; the identity has no such cells.
ec_op_builtin(s, q, m) == GroupAdd(s, ScalarMul(m, q))

\* build_ec_state_add_mul
build_ec_state_add_mul(ec_builtin, st, m, pt) ==
  LET sx == st.x
      sy == st.y
      random_ptr == st.random_ptr
      result == ec_op_builtin(Pt(sx, sy), pt, m)
  IN  IF result = ZeroPoint THEN Unsatisfiable("ec_op builtin")
      ELSE [branch |-> "Fallthrough", ec_builtin |-> ec_builtin + 7,
            state |-> [x |-> result.x, y |-> result.y, random_ptr |-> random_ptr]]

\* --------------------------------------------------------------- actions
Cursors == 0 .. MaxCursor
Scalars == 0 .. MaxScalar

Init ==
  /\ curve \in 1 .. NumCurves
  /\ R \in CurvePoints
  /\ out = [op |-> "None"]
  /\ prevX = NoPoint
  /\ state = NoState
  /\ sum = ZeroPoint
  /\ nops = 0
  /\ mulUsed = FALSE

AccUnchanged == UNCHANGED << curve, R, state, sum, nops, mulUsed >>

EcZero ==
  /\ out' = [op |-> "Zero", res |-> build_ec_zero]
  /\ UNCHANGED prevX
  /\ AccUnchanged

TryNew ==
  \E x \in Felt, y \in Felt :
    /\ out' = [op |-> "TryNew", x |-> x, y |-> y,
               res |-> build_ec_point_try_new_nz(x, y)]
    /\ UNCHANGED prevX
    /\ AccUnchanged

PointFromX ==
  \E range_check \in Cursors, x \in Felt, hint \in Felt :
    /\ out' = [op |-> "PointFromX", range_check |-> range_check, x |-> x,
               hint |-> hint,
               res |-> build_ec_point_from_x_nz(range_check, x, hint)]
    /\ prevX' = IF out.op = "PointFromX" /\ out.res.branch = "Fallthrough"
                  THEN out.res.point ELSE prevX
    /\ AccUnchanged

UnwrapPoint ==
  \E p \in EcPoints :
    /\ out' = [op |-> "UnwrapPoint", point |-> p, res |-> build_ec_point_unwrap(p)]
    /\ UNCHANGED prevX
    /\ AccUnchanged

IsZero ==
  \E p \in EcPoints :
    /\ out' = [op |-> "IsZero", point |-> p, res |-> build_is_zero(p)]
    /\ UNCHANGED prevX
    /\ AccUnchanged

Neg ==
  \E p \in EcPoints :
    /\ out' = [op |-> "Neg", point |-> p, res |-> build_ec_neg(p)]
    /\ UNCHANGED prevX
    /\ AccUnchanged

\* ec_neg applied to the point the previous ec_neg returned.
NegAgain ==
  /\ out.op = "Neg"
  /\ out' = [op |-> "NegNeg", point |-> out.point, mid |-> out.res.point,
             res |-> build_ec_neg(out.res.point)]
  /\ UNCHANGED prevX
  /\ AccUnchanged

StateInit ==
  LET res == build_ec_state_init IN
    /\ out' = [op |-> "StateInit", res |-> res]
    /\ state' = res.state
    /\ sum' = ZeroPoint
    /\ nops' = 0
    /\ mulUsed' = FALSE
    /\ UNCHANGED << curve, R, prevX >>

StateAdd ==
  /\ state # NoState
  /\ nops < MaxOps
  /\ \E pt \in CurvePoints :
       LET res == build_ec_state_add(state, pt) IN
         /\ out' = [op |-> "StateAdd", state |-> state, point |-> pt, res |-> res]
         /\ state' = IF res.branch = "Fallthrough" THEN res.state ELSE NoState
         /\ sum' = GroupAdd(sum, pt)
         /\ nops' = nops + 1
         /\ UNCHANGED << curve, R, prevX, mulUsed >>

StateAddMul ==
  /\ state # NoState
  /\ nops < MaxOps
  /\ \E ec_builtin \in Cursors, m \in Scalars, pt \in CurvePoints :
       LET res == build_ec_state_add_mul(ec_builtin, state, m, pt) IN
         /\ out' = [op |-> "StateAddMul", ec_builtin |-> ec_builtin, state |-> state,
                    m |-> m, point |-> pt, res |-> res]
         /\ state' = IF res.branch = "Fallthrough" THEN res.state ELSE NoState
         /\ sum' = GroupAdd(sum, ScalarMul(m, pt))
         /\ nops' = nops + 1
         /\ mulUsed' = TRUE
         /\ UNCHANGED << curve, R, prevX >>

StateFinalize ==
  /\ state # NoState
  /\ out' = [op |-> "StateFinalize", state |-> state,
             res |-> build_ec_state_finalize(state)]
  /\ state' = NoState
  /\ UNCHANGED << curve, R, prevX, sum, nops, mulUsed >>

\* The point libfuncs.
Next == EcZero \/ TryNew \/ PointFromX \/ UnwrapPoint \/ IsZero \/ Neg \/ NegAgain

Spec == Init /\ [][Next]_vars

\* The accumulator libfuncs.
NextState == StateInit \/ StateAdd \/ StateAddMul \/ StateFinalize

SpecState == Init /\ [][NextState]_vars

\* ---------------------------------------------------------------- claims
\* x^3 + x + BETA over the integers, reduced once.
RefRhs(x) == (x * x * x + x + get_beta) % PRIME
RefSquare(y) == (y * y) % PRIME

\* C1: TryNew(x, y) takes Fallthrough carrying (x, y) unchanged exactly when
\* y*y = x*x*x + x + BETA (mod P), and NotOnCurve with no outputs for every
\* other pair; the zero pair (0, 0) goes to NotOnCurve.
C1_TryNewDecidesCurveEquation ==
  out.op = "TryNew" =>
    LET p == Pt(out.x, out.y) IN
      /\ OnCurve(p) => out.res = [branch |-> "Fallthrough", point |-> p]
      /\ ~OnCurve(p) => out.res = [branch |-> "NotOnCurve"]
      /\ p = ZeroPoint => out.res = [branch |-> "NotOnCurve"]

C1_Witness ==
  /\ out.op = "TryNew"
  /\ OnCurve(Pt(out.x, out.y))
  /\ out.res.branch = "Fallthrough"

\* C2: when rhs = x^3 + x + BETA is a quadratic residue, every satisfiable
\* trace of PointFromX, whatever the hint, ends on Fallthrough with (x, y),
\* y*y = rhs and y < P/2; a hinted root >= P/2 has no satisfiable trace; and
\* two invocations with the same x return the same y.
C2_FromXCanonicalRoot ==
  (out.op = "PointFromX" /\ IsSquare(RefRhs(out.x))) =>
    /\ out.res.branch # "Unsatisfiable" =>
         /\ out.res.branch = "Fallthrough"
         /\ out.res.point.x = out.x
         /\ RefSquare(out.res.point.y) = RefRhs(out.x)
         /\ BelowHalf(out.res.point.y)
    /\ (RefSquare(out.hint) = RefRhs(out.x) /\ ~BelowHalf(out.hint)) =>
         out.res.branch = "Unsatisfiable"
    /\ (out.res.branch = "Fallthrough" /\ prevX # NoPoint /\ prevX.x = out.x) =>
         out.res.point.y = prevX.y

C2_Witness ==
  /\ out.op = "PointFromX"
  /\ IsSquare(RefRhs(out.x))
  /\ out.res.branch = "Fallthrough"
  /\ prevX # NoPoint
  /\ prevX.x = out.x

\* C3: when rhs is a quadratic non-residue PointFromX reaches only
\* NotOnCurve, never Fallthrough; a hint y with y*y # rhs and y*y # 3*rhs
\* has no satisfiable trace; so NotOnCurve is reached only when rhs has no
\* square root.
C3_FromXNotOnCurveSound ==
  out.op = "PointFromX" =>
    /\ ~IsSquare(RefRhs(out.x)) => out.res.branch \in {"NotOnCurve", "Unsatisfiable"}
    /\ (/\ RefSquare(out.hint) # RefRhs(out.x)
        /\ RefSquare(out.hint) # (3 * RefRhs(out.x)) % PRIME) =>
         out.res.branch = "Unsatisfiable"
    /\ out.res.branch = "NotOnCurve" => ~IsSquare(RefRhs(out.x))

C3_Witness ==
  /\ out.op = "PointFromX"
  /\ ~IsSquare(RefRhs(out.x))
  /\ out.res.branch = "NotOnCurve"

\* The invocation history is StateInit; StateAdd(state, P) and nothing else.
SingleAdd == nops = 1 /\ ~mulUsed

\* C4 as stated: for any valid non-identity P # R, StateInit; StateAdd(P);
\* StateFinalize reaches Fallthrough of StateFinalize with result exactly P,
\* with no forced fail on the way.
C4_RoundTripAnyPoint ==
  /\ (out.op = "StateAdd" /\ SingleAdd /\ out.point # R) =>
       out.res.branch = "Fallthrough"
  /\ (out.op = "StateFinalize" /\ SingleAdd /\ sum # R) =>
       out.res = [branch |-> "Fallthrough", point |-> sum]

\* P is R, -R or -2R.
Excluded(P) == P \in {R, RefNeg(R), RefNeg(GroupAdd(R, R))}

\* C4 amended: for any valid non-identity P outside {R, -R, -2R},
\* StateInit; StateAdd(P); StateFinalize reaches Fallthrough of StateFinalize
\* with result exactly P, with no forced fail on the way.
C4_RoundTripAmended ==
  /\ (out.op = "StateAdd" /\ SingleAdd /\ ~Excluded(out.point)) =>
       out.res.branch = "Fallthrough"
  /\ (out.op = "StateFinalize" /\ SingleAdd /\ ~Excluded(sum)) =>
       out.res = [branch |-> "Fallthrough", point |-> sum]

C4_Witness ==
  /\ out.op = "StateFinalize"
  /\ SingleAdd
  /\ ~Excluded(sum)
  /\ out.res.branch = "Fallthrough"
  /\ out.res.point = sum

\* The cursor after the canonical-root check of PointFromX.
FromXAdvanced(range_check) ==
  validate_under_limit(from_x_limit, 0, range_check).range_check

\* C5 as stated: both Fallthrough and NotOnCurve of PointFromX carry the
\* range-check cursor advanced past the slots of the canonical-root check,
\* different from the input cursor.
C5_BothBranchesAdvance ==
  (out.op = "PointFromX" /\ out.res.branch \in {"Fallthrough", "NotOnCurve"}) =>
    /\ out.res.range_check = FromXAdvanced(out.range_check)
    /\ out.res.range_check # out.range_check

\* C5 amended: Fallthrough of PointFromX carries the range-check cursor
\* advanced past the slot of the canonical-root check; NotOnCurve, taken
\* before that check, carries the input cursor unchanged.
C5_OnlyFallthroughAdvances ==
  out.op = "PointFromX" =>
    /\ out.res.branch = "Fallthrough" =>
         /\ out.res.range_check = FromXAdvanced(out.range_check)
         /\ out.res.range_check > out.range_check
    /\ out.res.branch = "NotOnCurve" => out.res.range_check = out.range_check

C5_Witness ==
  /\ out.op = "PointFromX"
  /\ out.res.branch = "NotOnCurve"
  /\ out.res.range_check = out.range_check

\* C6: StateInit sets the state's blind pointer to the address of the random
\* point, with x and y read from that address; StateAdd and StateAddMul pass
\* it through unchanged; so the blind pointer of every live state is the
\* address from which StateFinalize reads R.
C6_BlindPtrIsRandomPointAddress ==
  /\ out.op = "StateInit" =>
       /\ out.res.state.random_ptr = get_pointer_after_program_code
       /\ out.res.state.x = Mem(out.res.state.random_ptr)
       /\ out.res.state.y = Mem(out.res.state.random_ptr + 1)
  /\ (out.op \in {"StateAdd", "StateAddMul"} /\ out.res.branch = "Fallthrough") =>
       out.res.state.random_ptr = out.state.random_ptr
  /\ state # NoState => state.random_ptr = get_pointer_after_program_code

\* C7: StateFinalize applied to the state StateInit produced, with nothing
\* added, takes SumIsInfinity: state.x - R.x is zero and state.y = R.y.
C7_FinalizeAfterInitIsInfinity ==
  (out.op = "StateFinalize" /\ nops = 0) =>
    /\ out.res.branch = "SumIsInfinity"
    /\ (out.state.x - R.x) % PRIME = 0
    /\ out.state.y = R.y

C7_Witness ==
  /\ out.op = "StateFinalize"
  /\ nops = 0
  /\ out.res.branch = "SumIsInfinity"

\* C8: StateAdd with point.x = state.x reaches `fail`, has no satisfiable
\* continuation and does not evaluate the slope division; with
\* point.x # state.x it never reaches `fail`.
C8_SameXForcesFail ==
  out.op = "StateAdd" =>
    IF out.point.x = out.state.x
      THEN out.res = [branch |-> "Unsatisfiable", at |-> "fail", divided |-> FALSE]
      ELSE out.res.branch = "Fallthrough" /\ out.res.divided

C8_Witness ==
  /\ out.op = "StateAdd"
  /\ out.point.x = out.state.x
  /\ out.point # Pt(out.state.x, out.state.y)
  /\ out.res.branch = "Unsatisfiable"

\* C9: IsZero((0,0)) takes Fallthrough with no payload; IsZero of an
\* on-curve point with y # 0 takes Target carrying (x, y) unchanged; the
\* branch depends only on whether y = 0, and among the zero point and the
\* points of the curve y = 0 holds exactly for the zero point.
C9_IsZeroBranchesOnY ==
  /\ out.op = "IsZero" =>
       /\ out.point = ZeroPoint => out.res = [branch |-> "Fallthrough"]
       /\ (OnCurve(out.point) /\ out.point.y # 0) =>
            out.res = [branch |-> "Target", point |-> out.point]
       /\ out.res.branch = "Fallthrough" <=> out.point.y = 0
       /\ out.res.branch \in {"Fallthrough", "Target"}
  /\ \A p \in EcPoints : p.y = 0 <=> p = ZeroPoint

C9_Witness ==
  /\ out.op = "IsZero"
  /\ OnCurve(out.point)
  /\ out.res.branch = "Target"

\* C10: Neg maps (x, y) to (x, -y mod P); Neg(Neg(P)) = P; Neg of the zero
\* point is the zero point; Neg of an on-curve point is on the curve.
C10_NegInvolution ==
  /\ out.op = "Neg" =>
       /\ out.res = [branch |-> "Fallthrough",
                     point |-> Pt(out.point.x, (PRIME - out.point.y) % PRIME)]
       /\ out.point = ZeroPoint => out.res.point = ZeroPoint
       /\ OnCurve(out.point) => OnCurve(out.res.point)
  /\ out.op = "NegNeg" =>
       /\ out.mid = Pt(out.point.x, (PRIME - out.point.y) % PRIME)
       /\ out.res = [branch |-> "Fallthrough", point |-> out.point]

C10_Witness ==
  /\ out.op = "NegNeg"
  /\ OnCurve(out.point)
  /\ out.mid # out.point
  /\ out.res.point = out.point

\* The (x, y) of an EcState.
StatePoint(st) == Pt(st.x, st.y)

\* C11: after StateInit and StateAdd calls that did not hit the forced fail,
\* the stored (x, y) is R + sum(P_i) in the curve group and never the
\* identity; StateFinalize on such a state reaches Fallthrough only with
\* result = state - R = sum(P_i), reaches SumIsInfinity only when state = R
\* (the true sum is the identity), and has no satisfiable trace when
\* state.x = R.x but state.y # R.y (state = -R).
C11_StateIsBlindedSum ==
  /\ (state # NoState /\ ~mulUsed) =>
       /\ StatePoint(state) = GroupAdd(R, sum)
       /\ StatePoint(state) # ZeroPoint
       /\ OnCurve(StatePoint(state))
  /\ (out.op = "StateFinalize" /\ ~mulUsed) =>
       LET s == StatePoint(out.state) IN
         /\ s = GroupAdd(R, sum)
         /\ out.res.branch = "Fallthrough" =>
              /\ out.res.point = GroupAdd(s, RefNeg(R))
              /\ out.res.point = sum
              /\ sum # ZeroPoint
         /\ out.res.branch = "SumIsInfinity" => (s = R /\ sum = ZeroPoint)
         /\ (s.x = R.x /\ s.y # R.y) =>
              (out.res.branch = "Unsatisfiable" /\ s = RefNeg(R))
         /\ out.res.branch = "Unsatisfiable" => (s.x = R.x /\ s.y # R.y)

C11_Witness ==
  /\ out.op = "StateFinalize"
  /\ ~mulUsed
  /\ nops = 2
  /\ out.res.branch = "Fallthrough"
  /\ out.res.point = sum

====
